---------------------------- MODULE Spec2Model ----------------------------
(***************************************************************************)
(* A model of the PLEXIL adapter of ow_autonomy:                           *)
(*   - OwInterface.cpp: the ROS services (ServiceInfo, service_available,  *)
(*     service_call and the request methods that spawn it in a detached    *)
(*     thread) and the joint telemetry (jointStatesCallback,               *)
(*     handle_overtorque and the torque-limit queries);                    *)
(*   - PlexilInterface.cpp: the table of lander operations                 *)
(*     (registerLanderOperation, markOperationRunning,                     *)
(*     markOperationFinished, operationRunning) and the command status     *)
(*     callback.                                                           *)
(* The three parts share no state in the code, so each has its own         *)
(* specification: SpecService, SpecLander, SpecTelemetry; SpecIngest is    *)
(* the telemetry part with the message held in the subscriber's queue.     *)
(***************************************************************************)
EXTENDS Integers, Sequences, FiniteSets, TLC

VARIABLES
  m_running,      \* ServiceInfo<Service>::m_running, one flag per service type
  svcThreads,     \* the detached threads running service_call, in spawn order
  lastRequest,    \* what the latest request method of OwInterface did
  facts,          \* the calls of publish(), in order, of each invocation
  m_runningOperations,     \* PlexilInterface: operation name -> id, IDLE_ID when idle
  m_commandStatusCallback, \* PlexilInterface: the installed callback, or nullptr
  ctl,            \* the control thread's place in markOperationRunning
  units,          \* the execution units of the accepted lander operations
  statusCalls,    \* the calls of m_commandStatusCallback of each invocation
  JointsAtHardTorqueLimit, \* OwInterface.cpp: set of PLEXIL joint names
  JointsAtSoftTorqueLimit, \* OwInterface.cpp: set of PLEXIL joint names
  JointTelemetryMap,       \* OwInterface.cpp: joint -> latest JointTelemetry
  jointFacts,     \* the calls of publish() of the latest jointStatesCallback
  jointErrors,    \* the names the latest jointStatesCallback logged as unsupported
  crashed,        \* jointStatesCallback read past the end of the message and died
  jointQueue      \* the /joint_states message waiting for jointStatesCallback

svcVars == <<m_running, svcThreads, lastRequest>>
landerVars == <<m_runningOperations, m_commandStatusCallback, ctl, units,
                statusCalls>>
jointVars == <<JointsAtHardTorqueLimit, JointsAtSoftTorqueLimit,
               JointTelemetryMap, jointFacts, jointErrors, crashed,
               jointQueue>>

(***************************************************************************)
(* Bounds of the model.                                                    *)
(***************************************************************************)
\* service_call threads spawned in one behaviour
MaxThreads == 2
\* execution units launched for lander operations in one behaviour
MaxUnits == 2
\* entries of one JointState message
MaxBatch == 3

(***************************************************************************)
(* OwInterface.cpp: service support.                                       *)
(***************************************************************************)
MoveGuardedService == "MoveGuarded"
ArmPlanningService == "StartPlanning"
ArmTrajectoryService == "PublishTrajectory"

\* The keys of ServiceRunning: one ServiceInfo instantiation per service.
Services == {MoveGuardedService, ArmPlanningService, ArmTrajectoryService}

\* What client.call(srv) can come back with: the call went through and the
\* response says success or failure, or the call itself failed.
CallOutcomes == {"success", "failure", "callFailed"}

\* ServiceInfo<Service>::is_running
is_running(S) == m_running[S]

\* ServiceInfo<Service>::start and stop, as the new value of the flags
start(S) == [m_running EXCEPT ![S] = TRUE]

\* A stop that leaves the flag as it is.
stop_LeavesFlag(S) == m_running

stop(S) == [m_running EXCEPT ![S] = FALSE]

\* is_service
is_service(name) == name \in DOMAIN m_running

\* serviceRunning: ServiceRunning.at(name)(), for a name that is a service
serviceRunning(name) == is_running(name)

\* serviceFinished
serviceFinished(name) == ~ serviceRunning(name)

\* OwInterface::running: an error is logged for a name that is no service
OwInterface_running(name) ==
  IF is_service(name) THEN serviceRunning(name) ELSE FALSE

\* A name that is no service counts as finished.
OwInterface_finished_UnknownIsFinished(name) ==
  IF is_service(name) THEN serviceFinished(name) ELSE TRUE

\* OwInterface::finished: an error is logged for a name that is no service
OwInterface_finished(name) ==
  IF is_service(name) THEN serviceFinished(name) ELSE FALSE

\* service_available<Service>(name): the flag read is that of the template
\* argument, the name is only used in the warning.
service_available(S, name) == ~ is_running(S)

\* The template argument the request method for `name` gives to
\* service_available: every one of them instantiates it with
\* ow_lander::StartPlanning.
AvailabilityCheckedOn(name) == ArmPlanningService

\* publish (key, value, name)
Fact(key, value, name) == [key |-> key, value |-> value, name |-> name]

\* The facts with one more published by invocation t.
Publish(t, fact) == [facts EXCEPT ![t] = Append(@, fact)]

NoRequest == [name |-> "none", wasRunning |-> FALSE, spawned |-> FALSE,
              returned |-> TRUE]

InitService ==
  /\ m_running = [S \in Services |-> FALSE]
  /\ svcThreads = << >>
  /\ lastRequest = NoRequest
  /\ facts = << >>

\* std::thread t (service_call<Service>, client, srv, name); t.detach()
SpawnServiceCall(name) ==
  Append(svcThreads, [name |-> name, pc |-> "checkStart", started |-> FALSE])

\* t.join() in place of t.detach(): the request method waits for its thread.
RequestReturns_Joins(spawn) == ~ spawn

\* Whether the request method is back with its caller once it is through:
\* it detaches the thread it spawned and returns.
RequestReturns(spawn) == TRUE

\* startPlanningDemo, moveGuarded, publishTrajectoryDemo: return when the
\* service is not available; spawn the thread when the client is ok.  The
\* control thread calls them one after the other.
Request(name, clientOk) ==
  /\ lastRequest.returned
  /\ Len(svcThreads) < MaxThreads
  /\ LET avail == service_available(AvailabilityCheckedOn(name), name)
         spawn == avail /\ clientOk
     IN /\ svcThreads' = IF spawn THEN SpawnServiceCall(name) ELSE svcThreads
        /\ facts' = IF spawn THEN Append(facts, << >>) ELSE facts
        /\ lastRequest' = [name |-> name, wasRunning |-> is_running(name),
                           spawned |-> spawn,
                           returned |-> RequestReturns(spawn)]
  /\ UNCHANGED <<m_running, landerVars, jointVars>>

startPlanningDemo == \E ok \in BOOLEAN : Request(ArmPlanningService, ok)
moveGuarded == \E ok \in BOOLEAN : Request(MoveGuardedService, ok)
publishTrajectoryDemo == \E ok \in BOOLEAN : Request(ArmTrajectoryService, ok)

SetThread(t, r) == [svcThreads EXCEPT ![t] = r]

\* service_call, line 82: the test of is_running; an error is logged when the
\* service is found running, and start() is then skipped.
ServiceCallCheckStart(t) ==
  LET th == svcThreads[t] IN
  /\ th.pc = "checkStart"
  /\ svcThreads' = SetThread(t, IF is_running(th.name)
                                THEN [th EXCEPT !.pc = "publishRunning"]
                                ELSE [th EXCEPT !.pc = "start",
                                                !.started = TRUE])
  /\ UNCHANGED <<m_running, lastRequest, facts, landerVars, jointVars>>

\* service_call, line 86: start()
ServiceCallStart(t) ==
  LET th == svcThreads[t] IN
  /\ th.pc = "start"
  /\ m_running' = start(th.name)
  /\ svcThreads' = SetThread(t, [th EXCEPT !.pc = "publishRunning"])
  /\ UNCHANGED <<lastRequest, facts, landerVars, jointVars>>

\* service_call, line 87: publish ("Running", true, name)
ServiceCallPublishRunning(t) ==
  LET th == svcThreads[t] IN
  /\ th.pc = "publishRunning"
  /\ facts' = Publish(t, Fact("Running", TRUE, th.name))
  /\ svcThreads' = SetThread(t, [th EXCEPT !.pc = "call"])
  /\ UNCHANGED <<m_running, lastRequest, landerVars, jointVars>>

\* service_call, lines 89-93: client.call (srv) returns with outcome o; both
\* branches only log, so nothing of the outcome is kept.
ServiceCallReturns(t) ==
  LET th == svcThreads[t] IN
  /\ th.pc = "call"
  /\ \E o \in CallOutcomes :
       svcThreads' = SetThread(t, [th EXCEPT !.pc = "checkStop"])
  /\ UNCHANGED <<m_running, lastRequest, facts, landerVars, jointVars>>

\* service_call, line 95: the test of is_running; an error is logged when the
\* service is found stopped, and stop() is then skipped.
ServiceCallCheckStop(t) ==
  LET th == svcThreads[t] IN
  /\ th.pc = "checkStop"
  /\ svcThreads' = SetThread(t, IF is_running(th.name)
                                THEN [th EXCEPT !.pc = "stop"]
                                ELSE [th EXCEPT !.pc = "publishFinished"])
  /\ UNCHANGED <<m_running, lastRequest, facts, landerVars, jointVars>>

\* service_call, line 99: stop()
ServiceCallStop(t) ==
  LET th == svcThreads[t] IN
  /\ th.pc = "stop"
  /\ m_running' = stop(th.name)
  /\ svcThreads' = SetThread(t, [th EXCEPT !.pc = "publishFinished"])
  /\ UNCHANGED <<lastRequest, facts, landerVars, jointVars>>

\* service_call, line 100: publish ("Finished", true, name), the last line
ServiceCallPublishFinished(t) ==
  LET th == svcThreads[t] IN
  /\ th.pc = "publishFinished"
  /\ facts' = Publish(t, Fact("Finished", TRUE, th.name))
  /\ svcThreads' = SetThread(t, [th EXCEPT !.pc = "done"])
  /\ UNCHANGED <<m_running, lastRequest, landerVars, jointVars>>

\* One step of the thread t.
ServiceCallStep(t) ==
  \/ ServiceCallCheckStart(t)
  \/ ServiceCallStart(t)
  \/ ServiceCallPublishRunning(t)
  \/ ServiceCallReturns(t)
  \/ ServiceCallCheckStop(t)
  \/ ServiceCallStop(t)
  \/ ServiceCallPublishFinished(t)

NextService ==
  \/ startPlanningDemo
  \/ moveGuarded
  \/ publishTrajectoryDemo
  \/ \E t \in DOMAIN svcThreads : ServiceCallStep(t)


(***************************************************************************)
(* PlexilInterface.cpp: the lander operations.                             *)
(***************************************************************************)
\* Dummy operation ID that signifies idle lander operation.
IDLE_ID == -1

\* The operation names the callers use.
OpNames == {"Dig", "GuardedMove"}

\* The ids a command comes with; IDLE_ID is the id of a request that no
\* command stands behind.
Ids == {IDLE_ID, 42}

\* What the external call of an execution unit can end with: a result that
\* says success or failure, or an unexpected fault.
Outcomes == {"success", "failure", "fault"}

\* isLanderOperation
isLanderOperation(name) == name \in DOMAIN m_runningOperations

\* operationRunning
operationRunning(name) == m_runningOperations[name] # IDLE_ID

\* running
running(name) == operationRunning(name)

\* m_runningOperations[name] = IDLE_ID: operator[] inserts the name or
\* overwrites its id.
registerLanderOperation(name) ==
  /\ ctl.pc = "idle"
  /\ m_runningOperations' =
       [n \in DOMAIN m_runningOperations \cup {name} |->
          IF n = name THEN IDLE_ID ELSE m_runningOperations[n]]
  /\ UNCHANGED <<m_commandStatusCallback, ctl, units, statusCalls,
                 facts, svcVars, jointVars>>

\* setCommandStatusCallback
setCommandStatusCallback ==
  /\ ctl.pc = "idle"
  /\ m_commandStatusCallback' = "callback"
  /\ UNCHANGED <<m_runningOperations, ctl, units, statusCalls,
                 facts, svcVars, jointVars>>

CtlIdle == [pc |-> "idle", name |-> "none", id |-> IDLE_ID, result |-> FALSE]

\* The test of markOperationRunning, line 30.
AlreadyRunning(name) == m_runningOperations[name] # IDLE_ID

\* m_runningOperations.at (name) throws std::out_of_range when the name is
\* not a key of the map.
AtThrows(name) == name \notin DOMAIN m_runningOperations

\* markOperationRunning, lines 30-33: the control thread takes a request; a
\* name that was not registered makes at() throw, and the exception leaves
\* markOperationRunning, which has no handler; a running operation makes it
\* warn and return false.  Requests come once the callback is installed.
markOperationRunningCheck(name, id) ==
  /\ ctl.pc = "idle"
  /\ Len(units) < MaxUnits
  /\ m_commandStatusCallback # "nullptr"
  /\ ctl' = [pc |-> IF AtThrows(name) THEN "thrown"
                    ELSE IF AlreadyRunning(name) THEN "returned" ELSE "write",
             name |-> name, id |-> id, result |-> FALSE]
  /\ UNCHANGED <<m_runningOperations, m_commandStatusCallback, units,
                 statusCalls, facts, svcVars, jointVars>>

\* markOperationRunning, line 34: m_runningOperations.at (name) = id
markOperationRunningWrite ==
  /\ ctl.pc = "write"
  /\ m_runningOperations' = [m_runningOperations EXCEPT ![ctl.name] = ctl.id]
  /\ ctl' = [ctl EXCEPT !.pc = "publish"]
  /\ UNCHANGED <<m_commandStatusCallback, units, statusCalls, facts, svcVars,
                 jointVars>>

\* markOperationRunning, lines 35-36: publish ("Running", true, name) and
\* return true.  The fact belongs to the unit that is launched next.
markOperationRunningPublish ==
  /\ ctl.pc = "publish"
  /\ facts' = Append(facts, << Fact("Running", TRUE, ctl.name) >>)
  /\ ctl' = [ctl EXCEPT !.pc = "returned", !.result = TRUE]
  /\ UNCHANGED <<m_runningOperations, m_commandStatusCallback, units,
                 statusCalls, svcVars, jointVars>>

\* The caller of markOperationRunning: on true it launches the execution
\* unit of the operation, on false it launches nothing; it returns.
Dispatched ==
  /\ ctl.pc = "returned"
  /\ IF ctl.result
       THEN /\ units' = Append(units, [name |-> ctl.name, id |-> ctl.id,
                                       pc |-> "invoke", outcome |-> "none",
                                       warned |-> FALSE, foundIdle |-> FALSE])
            /\ statusCalls' = Append(statusCalls, << >>)
       ELSE UNCHANGED <<units, statusCalls>>
  /\ ctl' = CtlIdle
  /\ UNCHANGED <<m_runningOperations, m_commandStatusCallback, facts,
                 svcVars, jointVars>>

SetUnit(u, r) == [units EXCEPT ![u] = r]

\* The execution unit: its external call ends, and it goes on to
\* markOperationFinished (name, id) whatever the outcome.
InvokeReturns(u) ==
  /\ units[u].pc = "invoke"
  /\ \E o \in Outcomes :
       units' = SetUnit(u, [units[u] EXCEPT !.pc = "finCheck", !.outcome = o])
  /\ UNCHANGED <<m_runningOperations, m_commandStatusCallback, ctl, statusCalls,
                 facts, svcVars, jointVars>>

\* C++ operator! on an int: 1 for 0, else 0.
LogicalNot(x) == IF x = 0 THEN 1 ELSE 0

\* The test of markOperationFinished, line 41:
\* ! m_runningOperations.at (name) == IDLE_ID, where ! binds first.
NotRunningTest(name) == LogicalNot(m_runningOperations[name]) = IDLE_ID

\* markOperationFinished, lines 41-43: the test and its warning; foundIdle
\* keeps, until the function returns, whether the operation was idle when it
\* was entered.
markOperationFinishedCheck(u) ==
  /\ units[u].pc = "finCheck"
  /\ units' = SetUnit(u, [units[u] EXCEPT
                            !.pc = "finWrite",
                            !.warned = NotRunningTest(units[u].name),
                            !.foundIdle = ~ operationRunning(units[u].name)])
  /\ UNCHANGED <<m_runningOperations, m_commandStatusCallback, ctl, statusCalls,
                 facts, svcVars, jointVars>>

\* Line 44 left out: the operation keeps its id.
markOperationFinishedWrite_NoReset(u) ==
  /\ units[u].pc = "finWrite"
  /\ units' = SetUnit(u, [units[u] EXCEPT !.pc = "finPublishRunning"])
  /\ UNCHANGED <<m_runningOperations, m_commandStatusCallback, ctl,
                 statusCalls, facts, svcVars, jointVars>>

\* markOperationFinished, line 44: m_runningOperations.at (name) = IDLE_ID
markOperationFinishedWrite(u) ==
  /\ units[u].pc = "finWrite"
  /\ m_runningOperations' =
       [m_runningOperations EXCEPT ![units[u].name] = IDLE_ID]
  /\ units' = SetUnit(u, [units[u] EXCEPT !.pc = "finPublishRunning"])
  /\ UNCHANGED <<m_commandStatusCallback, ctl, statusCalls, facts, svcVars, jointVars>>

\* markOperationFinished, line 45: publish ("Running", false, name)
markOperationFinishedPublishRunning(u) ==
  /\ units[u].pc = "finPublishRunning"
  /\ facts' = Publish(u, Fact("Running", FALSE, units[u].name))
  /\ units' = SetUnit(u, [units[u] EXCEPT !.pc = "finPublishFinished"])
  /\ UNCHANGED <<m_runningOperations, m_commandStatusCallback, ctl, statusCalls,
                 svcVars, jointVars>>

\* markOperationFinished, line 46: publish ("Finished", true, name)
markOperationFinishedPublishFinished(u) ==
  /\ units[u].pc = "finPublishFinished"
  /\ facts' = Publish(u, Fact("Finished", TRUE, units[u].name))
  /\ units' = SetUnit(u, [units[u] EXCEPT !.pc = "finNotify"])
  /\ UNCHANGED <<m_runningOperations, m_commandStatusCallback, ctl, statusCalls,
                 svcVars, jointVars>>

\* The flag markOperationFinished gives to the callback, line 47.
StatusFlag(outcome) == TRUE

\* The test of line 47 left out: the callback is called for every id.
CallsBack_Always(id) == TRUE

\* Whether markOperationFinished calls the callback, line 47.
CallsBack(id) == id # IDLE_ID

\* markOperationFinished, lines 47-49: the call of the callback.  The function
\* is declared bool and returns nothing; the unit does not use its value.
markOperationFinishedNotify(u) ==
  /\ units[u].pc = "finNotify"
  /\ statusCalls' =
       IF CallsBack(units[u].id)
         THEN [statusCalls EXCEPT ![u] =
                 Append(@, [id |-> units[u].id,
                            success |-> StatusFlag(units[u].outcome)])]
         ELSE statusCalls
  /\ units' = SetUnit(u, [units[u] EXCEPT !.pc = "done", !.foundIdle = FALSE])
  /\ UNCHANGED <<m_runningOperations, m_commandStatusCallback, ctl, facts,
                 svcVars, jointVars>>

\* One step of markOperationFinished in the unit u.
markOperationFinished(u) ==
  \/ markOperationFinishedCheck(u)
  \/ markOperationFinishedWrite(u)
  \/ markOperationFinishedPublishRunning(u)
  \/ markOperationFinishedPublishFinished(u)
  \/ markOperationFinishedNotify(u)

InitLander ==
  /\ m_runningOperations = [n \in {} |-> IDLE_ID]
  /\ m_commandStatusCallback = "nullptr"
  /\ ctl = CtlIdle
  /\ units = << >>
  /\ statusCalls = << >>

NextLander ==
  \/ \E name \in OpNames : registerLanderOperation(name)
  \/ setCommandStatusCallback
  \/ \E name \in OpNames, id \in Ids : markOperationRunningCheck(name, id)
  \/ markOperationRunningWrite
  \/ markOperationRunningPublish
  \/ Dispatched
  \/ \E u \in DOMAIN units : InvokeReturns(u)
  \/ \E u \in DOMAIN units : markOperationFinished(u)

(***************************************************************************)
(* OwInterface.cpp: joint and torque support.                              *)
(***************************************************************************)
\* The rows of JointMap and JointPropMap the model keeps: of the six joints
\* with limits 60 and 80 and the two with limits 30 and 30, one each.
JointRows ==
  { [ros |-> "j_shou_yaw", joint |-> "shoulder_yaw",
     plexilName |-> "ShoulderYaw",
     softTorqueLimit |-> 60, hardTorqueLimit |-> 80],
    [ros |-> "j_ant_pan", joint |-> "antenna_pan",
     plexilName |-> "AntennaPan",
     softTorqueLimit |-> 30, hardTorqueLimit |-> 30] }

Joints == {r.joint : r \in JointRows}

\* JointMap: ROS JointStates message name -> joint
JointMap == [n \in {r.ros : r \in JointRows} |->
               (CHOOSE r \in JointRows : r.ros = n).joint]

\* JointPropMap: joint -> JointProperties
JointPropMap == [j \in Joints |-> CHOOSE r \in JointRows : r.joint = j]

\* The joint names a message can carry: those of JointMap and one more.
RosNames == DOMAIN JointMap \cup {"j_unknown"}

\* The (position, velocity, effort) triples a message can carry: the efforts
\* lie below, at, between and above the limits, with both signs.
Samples ==
  { [position |-> 1, velocity |-> 2, effort |-> 29],
    [position |-> 3, velocity |-> 4, effort |-> 60],
    [position |-> 5, velocity |-> 6, effort |-> -80] }

\* msg->name[i], msg->position[i], msg->velocity[i], msg->effort[i]
Entries == [name : RosNames, sample : Samples]

\* What reading msg->name[i] past the end of the vector gives: anything that
\* can be read as an entry, or the end of the process.
Crash == [name |-> "crash", sample |-> CHOOSE x \in Samples : TRUE]
PastTheEnd == Entries \cup {Crash}

\* abs
abs(x) == IF x < 0 THEN -x ELSE x

\* The last branch with its first erase left out.
handle_overtorque_KeepsHard(joint, effort, hardSet, softSet) ==
  LET props == JointPropMap[joint] IN
  IF abs(effort) >= props.hardTorqueLimit
    THEN <<hardSet \cup {props.plexilName}, softSet>>
  ELSE IF abs(effort) >= props.softTorqueLimit
    THEN <<hardSet, softSet \cup {props.plexilName}>>
  ELSE <<hardSet, softSet \ {props.plexilName}>>

\* handle_overtorque: the two sets <<hard, soft>> after the call
handle_overtorque(joint, effort, hardSet, softSet) ==
  LET props == JointPropMap[joint] IN
  IF abs(effort) >= props.hardTorqueLimit
    THEN <<hardSet \cup {props.plexilName}, softSet>>
  ELSE IF abs(effort) >= props.softTorqueLimit
    THEN <<hardSet, softSet \cup {props.plexilName}>>
  ELSE <<hardSet \ {props.plexilName}, softSet \ {props.plexilName}>>

\* handle_joint_fault: for now, the only fault is overtorque
handle_joint_fault(joint, sample, hardSet, softSet) ==
  handle_overtorque(joint, sample.effort, hardSet, softSet)

\* JointTelemetryMap[joint] = JointTelemetry (position, velocity, effort)
StoreTelemetry(tel, joint, sample) ==
  [j \in DOMAIN tel \cup {joint} |-> IF j = joint THEN sample ELSE tel[j]]

\* The three publish calls of one entry, in the order of the code.
JointFacts(plexilName, sample) ==
  << [key |-> <<plexilName, "Velocity">>, value |-> sample.velocity],
     [key |-> <<plexilName, "Effort">>, value |-> sample.effort],
     [key |-> <<plexilName, "Position">>, value |-> sample.position] >>

\* The body of the loop of jointStatesCallback for one entry, on the state
\* st of the callback.
JointStatesEntry(st, e) ==
  IF e.name \in DOMAIN JointMap
    THEN LET joint == JointMap[e.name]
             sets == handle_joint_fault(joint, e.sample, st.hard, st.soft)
         IN [st EXCEPT !.tel = StoreTelemetry(st.tel, joint, e.sample),
                       !.facts = st.facts \o
                                 JointFacts(JointPropMap[joint].plexilName,
                                            e.sample),
                       !.hard = sets[1],
                       !.soft = sets[2]]
    ELSE [st EXCEPT !.errors = Append(st.errors, e.name)]

\* The loop of jointStatesCallback from index i on: i runs over
\* JointMap.size() indices whatever the length of the message; read is the
\* message followed by what the reads past its end give.
RECURSIVE JointStatesLoop(_, _, _)
JointStatesLoop(st, read, i) ==
  IF i > Cardinality(DOMAIN JointMap) THEN st
  ELSE IF read[i] = Crash THEN [st EXCEPT !.crashed = TRUE]
  ELSE JointStatesLoop(JointStatesEntry(st, read[i]), read, i + 1)

\* The messages of up to MaxBatch entries.
Messages == UNION {[1..n -> Entries] : n \in 0..MaxBatch}

\* What the indices Len(msg)+1 .. JointMap.size() can read.
PastReads(msg) ==
  [(Len(msg) + 1)..Cardinality(DOMAIN JointMap) -> PastTheEnd]

\* jointStatesCallback on the message msg, the reads past its end giving past
jointStatesCallback(msg, past) ==
  /\ ~ crashed
  /\ LET read == [i \in (1..Len(msg)) \cup DOMAIN past |->
                    IF i <= Len(msg) THEN msg[i] ELSE past[i]]
         st == JointStatesLoop([tel |-> JointTelemetryMap,
                                hard |-> JointsAtHardTorqueLimit,
                                soft |-> JointsAtSoftTorqueLimit,
                                facts |-> << >>, errors |-> << >>,
                                crashed |-> FALSE], read, 1)
     IN /\ JointTelemetryMap' = st.tel
        /\ JointsAtHardTorqueLimit' = st.hard
        /\ JointsAtSoftTorqueLimit' = st.soft
        /\ jointFacts' = st.facts
        /\ jointErrors' = st.errors
        /\ crashed' = st.crashed
  /\ UNCHANGED <<svcVars, landerVars, facts>>

\* hardTorqueLimitReached, softTorqueLimitReached
hardTorqueLimitReached(joint_name) == joint_name \in JointsAtHardTorqueLimit
softTorqueLimitReached(joint_name) == joint_name \in JointsAtSoftTorqueLimit

InitTelemetry ==
  /\ JointsAtHardTorqueLimit = {}
  /\ JointsAtSoftTorqueLimit = {}
  /\ JointTelemetryMap = [j \in {} |-> 0]
  /\ jointFacts = << >>
  /\ jointErrors = << >>
  /\ crashed = FALSE
  /\ jointQueue = << >>

\* The callback called with every message as it arrives.
NextTelemetry ==
  \E msg \in Messages : \E past \in PastReads(msg) :
    jointStatesCallback(msg, past) /\ UNCHANGED jointQueue

\* subscribe ("/joint_states", qsize, OwInterface::jointStatesCallback): a
\* message arrives and waits for the spinning thread; the model keeps the
\* one at the head of the queue.
jointStatesArrives(msg) ==
  /\ ~ crashed
  /\ jointQueue = << >>
  /\ jointQueue' = << msg >>
  /\ UNCHANGED <<JointsAtHardTorqueLimit, JointsAtSoftTorqueLimit,
                 JointTelemetryMap, jointFacts, jointErrors, crashed,
                 svcVars, landerVars, facts>>

\* The spinning thread takes the message off the queue and calls
\* jointStatesCallback with it.
jointStatesSpin ==
  /\ jointQueue # << >>
  /\ \E past \in PastReads(Head(jointQueue)) :
       jointStatesCallback(Head(jointQueue), past)
  /\ jointQueue' = Tail(jointQueue)

\* The messages and the callback as two steps.
NextIngest ==
  \/ \E msg \in Messages : jointStatesArrives(msg)
  \/ jointStatesSpin

vars == <<m_running, svcThreads, lastRequest, facts, m_runningOperations,
          m_commandStatusCallback, ctl, units, statusCalls,
          JointsAtHardTorqueLimit, JointsAtSoftTorqueLimit, JointTelemetryMap,
          jointFacts, jointErrors, crashed, jointQueue>>

Init == InitService /\ InitLander /\ InitTelemetry

SpecService == Init /\ [][NextService]_vars

SpecLander == Init /\ [][NextLander]_vars

SpecTelemetry == Init /\ [][NextTelemetry]_vars

SpecIngest == Init /\ [][NextIngest]_vars

\* The threads of service_call go on once spawned; only the external call may
\* never return.
ServiceCallProceeds(t) ==
  /\ t \in DOMAIN svcThreads
  /\ \/ ServiceCallCheckStart(t)
     \/ ServiceCallStart(t)
     \/ ServiceCallPublishRunning(t)
     \/ ServiceCallCheckStop(t)
     \/ ServiceCallStop(t)
     \/ ServiceCallPublishFinished(t)

FairSpecService ==
  SpecService /\ \A t \in 1..MaxThreads : WF_vars(ServiceCallProceeds(t))

(***************************************************************************)
(* The properties.                                                         *)
(***************************************************************************)
\* The service_call threads of service S that are launched and not finished.
InFlight(S) ==
  {t \in DOMAIN svcThreads :
     svcThreads[t].name = S /\ svcThreads[t].pc # "done"}

\* C1: for every service name at most one service_call thread is in flight,
\* and a request made while the service of that name is running spawns no
\* thread.
C1_SingleFlight ==
  /\ \A S \in Services : Cardinality(InFlight(S)) <= 1
  /\ lastRequest.wasRunning => ~ lastRequest.spawned

\* The thread t is through with the test-and-start of service_call
\* (lines 82-86) and has not reached the end of its call.
BegunNotEnded(t) ==
  svcThreads[t].pc \in {"publishRunning", "call", "checkStop", "stop"}

\* Some thread of service S is past lines 95-99, the end of its call.
SomeEnd(S) ==
  \E t \in DOMAIN svcThreads :
    svcThreads[t].name = S /\ svcThreads[t].pc \in {"publishFinished", "done"}

\* C2: of two threads that went through the test-and-start of the same
\* service before any end of it, exactly one found the service stopped and
\* started it.
C2_ExactlyOneBegins ==
  \A t1, t2 \in DOMAIN svcThreads :
    ( /\ t1 # t2
      /\ svcThreads[t1].name = svcThreads[t2].name
      /\ BegunNotEnded(t1) /\ BegunNotEnded(t2)
      /\ ~ SomeEnd(svcThreads[t1].name) )
    => (svcThreads[t1].started # svcThreads[t2].started)

\* The unit u is between the true of its markOperationRunning and its own
\* write of IDLE_ID in markOperationFinished.
InWindow(u) == units[u].pc \in {"invoke", "finCheck", "finWrite"}

\* markOperationRunning has returned true for the name and the caller has
\* not launched the unit yet.
JustBegun(name) == ctl.pc = "returned" /\ ctl.result /\ ctl.name = name

\* C3: from the moment markOperationRunning (N, id) returned true until the
\* matching markOperationFinished sets N idle, operationRunning (N) is true,
\* whatever the id and whatever else is called meanwhile.
C3_RunningUntilEnd ==
  /\ \A u \in DOMAIN units : InWindow(u) => operationRunning(units[u].name)
  /\ \A name \in DOMAIN m_runningOperations :
       JustBegun(name) => operationRunning(name)

\* The lifecycle facts of one invocation, in the order claimed.
Lifecycle == << <<"Running", TRUE>>, <<"Running", FALSE>>, <<"Finished", TRUE>> >>

\* C4: the facts published for one invocation are Running=true, then
\* Running=false, then Finished=true: a Finished=true always has the
\* Running=false of its invocation before it.
C4_LifecycleOrder ==
  \A t \in DOMAIN facts :
    /\ Len(facts[t]) <= Len(Lifecycle)
    /\ \A i \in DOMAIN facts[t] :
         <<facts[t][i].key, facts[t][i].value>> = Lifecycle[i]

\* The step publishes Finished=true for the invocation u.
PublishesFinished(u) ==
  /\ Len(facts'[u]) = Len(facts[u]) + 1
  /\ facts'[u][Len(facts'[u])] = Fact("Finished", TRUE, units[u].name)

\* The step calls the callback for the invocation u.
Notifies(u) == Len(statusCalls'[u]) = Len(statusCalls[u]) + 1

\* C5 as claimed: whenever Finished=true is published or the callback is
\* called for an invocation, its operation is idle at that moment.
C5_IdleAtFinished ==
  [][\A u \in DOMAIN units :
       (PublishesFinished(u) \/ Notifies(u))
         => ~ operationRunning(units[u].name)]_vars

\* The invocation u has published Finished=true.
FinishedPublished(u) ==
  \E i \in DOMAIN facts[u] : facts[u][i] = Fact("Finished", TRUE, units[u].name)

\* Another request for the operation of u has been accepted and its
\* invocation has not set the operation idle yet.
BegunAgain(u) ==
  \/ \E v \in DOMAIN units :
       v # u /\ units[v].name = units[u].name /\ InWindow(v)
  \/ /\ ctl.name = units[u].name
     /\ ctl.pc = "publish" \/ (ctl.pc = "returned" /\ ctl.result)

\* C5 as amended: the callback of an invocation is called only after the
\* invocation has set its operation idle and published Finished=true, and the
\* operation is idle when Finished=true is published and when the callback is
\* called unless another request for it has been accepted meanwhile.
C5_NotifyAfterEnd ==
  [][\A u \in DOMAIN units :
       /\ Notifies(u) => FinishedPublished(u)
       /\ (PublishesFinished(u) \/ Notifies(u))
            => /\ ~ InWindow(u)
               /\ operationRunning(units[u].name) => BegunAgain(u)]_vars

\* C5, its case: a callback called after the Finished=true of its
\* invocation, the operation idle, with another invocation around.
C5_Witness ==
  \E u \in DOMAIN units :
    /\ Len(statusCalls[u]) = 1
    /\ FinishedPublished(u)
    /\ ~ operationRunning(units[u].name)
    /\ Len(units) > 1

\* C6: an invocation with an id other than IDLE_ID gets the callback called
\* exactly once, with its id, by the time it is done and not before its end;
\* an invocation with IDLE_ID gets no call.
C6_NotifiedExactlyOnce ==
  \A u \in DOMAIN units :
    /\ Len(statusCalls[u]) <= 1
    /\ \A i \in DOMAIN statusCalls[u] : statusCalls[u][i].id = units[u].id
    /\ units[u].id = IDLE_ID => statusCalls[u] = << >>
    /\ units[u].pc # "done" => statusCalls[u] = << >>
    /\ (units[u].pc = "done" /\ units[u].id # IDLE_ID)
         => Len(statusCalls[u]) = 1

\* C6, its case: one invocation done with an id and its one call, another
\* done with IDLE_ID and no call.
C6_Witness ==
  \E u, v \in DOMAIN units :
    /\ units[u].pc = "done" /\ units[u].id = 42
    /\ statusCalls[u] = << [id |-> 42, success |-> TRUE] >>
    /\ units[v].pc = "done" /\ units[v].id = IDLE_ID
    /\ statusCalls[v] = << >>

\* C7: the flag the callback is called with says whether the external call
\* of the invocation succeeded.
C7_FlagIsOutcome ==
  \A u \in DOMAIN units :
    \A i \in DOMAIN statusCalls[u] :
      statusCalls[u][i].success = (units[u].outcome = "success")

\* The thread t has its external call behind it.
CallReturned(t) == t \in DOMAIN svcThreads /\ svcThreads[t].pc = "checkStop"

\* The thread t has published Finished=true and ended.
ServiceCallDone(t) ==
  /\ t \in DOMAIN svcThreads
  /\ svcThreads[t].pc = "done"
  /\ \E i \in DOMAIN facts[t] :
       facts[t][i] = Fact("Finished", TRUE, svcThreads[t].name)

\* The service of thread t is not running.
ServiceIdle(t) == t \in DOMAIN svcThreads /\ ~ is_running(svcThreads[t].name)

\* No thread is left and some service is still marked running.
StuckRunning ==
  /\ \A t \in DOMAIN svcThreads : svcThreads[t].pc = "done"
  /\ \E S \in Services : is_running(S)

\* C8: once the external call of a thread has returned, whatever it returned,
\* the service is eventually not running and Finished=true is eventually
\* published; no service is left running when every thread has ended.
C8_NeverStuckRunning ==
  /\ \A t \in 1..MaxThreads : CallReturned(t) ~> ServiceIdle(t)
  /\ \A t \in 1..MaxThreads : CallReturned(t) ~> ServiceCallDone(t)
  /\ [] ~ StuckRunning

\* C8, its case: a thread that started its service and has ended, the
\* service idle again.
C8_Witness ==
  \E t \in DOMAIN svcThreads :
    /\ svcThreads[t].started
    /\ ServiceCallDone(t)
    /\ ServiceIdle(t)

\* C9: no joint is in both JointsAtHardTorqueLimit and
\* JointsAtSoftTorqueLimit.
C9_FaultSetsDisjoint ==
  JointsAtHardTorqueLimit \cap JointsAtSoftTorqueLimit = {}

\* C10: the membership of a joint in the two sets is that of the effort last
\* stored for it: hard iff |effort| >= hard limit, soft iff soft limit <=
\* |effort| < hard limit, whatever was stored before.
C10_Memoryless ==
  \A j \in DOMAIN JointTelemetryMap :
    LET props == JointPropMap[j]
        effort == abs(JointTelemetryMap[j].effort)
    IN /\ hardTorqueLimitReached(props.plexilName)
            <=> effort >= props.hardTorqueLimit
       /\ softTorqueLimitReached(props.plexilName)
            <=> (props.softTorqueLimit <= effort
                 /\ effort < props.hardTorqueLimit)

\* The effort is below the soft limit of the joint.
Nominal(joint, effort) == abs(effort) < JointPropMap[joint].softTorqueLimit

\* The joints the latest jointStatesCallback published a fact for.
PublishedFor ==
  {jointFacts[i].key[1] : i \in DOMAIN jointFacts}

\* C11: a sample with |effort| below the soft limit of its joint leaves the
\* joint in neither set, whatever sets it was in, and changes the membership
\* of no other joint: a joint whose stored effort is nominal is in neither
\* set, handle_overtorque on a nominal effort takes exactly the joint out of
\* the two sets, and a callback changes the membership of no joint it had no
\* entry for.
C11_NominalClears ==
  /\ [](\A j \in DOMAIN JointTelemetryMap :
          Nominal(j, JointTelemetryMap[j].effort)
            => /\ ~ hardTorqueLimitReached(JointPropMap[j].plexilName)
               /\ ~ softTorqueLimitReached(JointPropMap[j].plexilName))
  /\ [](\A j \in Joints : \A s \in Samples :
          Nominal(j, s.effort)
            => handle_overtorque(j, s.effort, JointsAtHardTorqueLimit,
                                 JointsAtSoftTorqueLimit)
               = << JointsAtHardTorqueLimit \ {JointPropMap[j].plexilName},
                    JointsAtSoftTorqueLimit \ {JointPropMap[j].plexilName} >>)
  /\ [][\A j \in Joints :
          JointPropMap[j].plexilName \notin PublishedFor'
            => /\ hardTorqueLimitReached(JointPropMap[j].plexilName)'
                    = hardTorqueLimitReached(JointPropMap[j].plexilName)
               /\ softTorqueLimitReached(JointPropMap[j].plexilName)'
                    = softTorqueLimitReached(JointPropMap[j].plexilName)]_vars

\* C11, its case: one callback brought a joint to its hard limit and then
\* stored a nominal sample for it, and the joint is in neither set while
\* another joint is still in one.
C11_Witness ==
  /\ Len(jointFacts) = 6
  /\ jointFacts[2] = [key |-> <<"ShoulderYaw", "Effort">>, value |-> -80]
  /\ jointFacts[5] = [key |-> <<"ShoulderYaw", "Effort">>, value |-> 29]
  /\ "ShoulderYaw" \notin JointsAtHardTorqueLimit \cup JointsAtSoftTorqueLimit
  /\ "AntennaPan" \in JointsAtHardTorqueLimit

\* The entry names a joint of JointMap.
Known(e) == e.name \in DOMAIN JointMap

\* The entries of the message the loop should store, and the names it should
\* log, in the order of the message.
KnownEntries(msg) == SelectSeq(msg, Known)
UnknownNames(msg) ==
  LET unknown(e) == ~ Known(e)
      dropped == SelectSeq(msg, unknown)
  IN [i \in DOMAIN dropped |-> dropped[i].name]

\* The facts of the entries, in order.
RECURSIVE FactsOf(_)
FactsOf(entries) ==
  IF entries = << >> THEN << >>
  ELSE JointFacts(JointPropMap[JointMap[Head(entries).name]].plexilName,
                  Head(entries).sample) \o FactsOf(Tail(entries))

\* The indices of the entries of the message for the joint.
EntriesFor(msg, joint) ==
  {i \in DOMAIN msg : Known(msg[i]) /\ JointMap[msg[i].name] = joint}

\* The sample of the last entry of the message for the joint.
LastSampleFor(msg, joint) ==
  msg[CHOOSE i \in EntriesFor(msg, joint) :
        \A k \in EntriesFor(msg, joint) : k <= i].sample

\* The step is a call of jointStatesCallback with the message of the queue.
Spins == jointQueue # << >> /\ jointQueue' = << >>

\* The callback leaves the sample and the membership of the joint alone.
JointUntouched(joint) ==
  /\ (joint \in DOMAIN JointTelemetryMap') = (joint \in DOMAIN JointTelemetryMap)
  /\ joint \in DOMAIN JointTelemetryMap
       => JointTelemetryMap'[joint] = JointTelemetryMap[joint]
  /\ hardTorqueLimitReached(JointPropMap[joint].plexilName)'
       = hardTorqueLimitReached(JointPropMap[joint].plexilName)
  /\ softTorqueLimitReached(JointPropMap[joint].plexilName)'
       = softTorqueLimitReached(JointPropMap[joint].plexilName)

\* The callback has stored the last sample of the message for the joint.
JointStored(msg, joint) ==
  /\ joint \in DOMAIN JointTelemetryMap'
  /\ JointTelemetryMap'[joint] = LastSampleFor(msg, joint)

\* C12: of a message with an entry whose name is not in JointMap, the
\* callback logs that name and nothing else, publishes the facts of the
\* entries with a known name and of no other, stores their samples, and
\* changes neither sample nor membership of a joint the message has no entry
\* for.
C12_UnknownDropped ==
  [][(Spins /\ UnknownNames(Head(jointQueue)) # << >>)
       => LET msg == Head(jointQueue) IN
          /\ jointErrors' = UnknownNames(msg)
          /\ jointFacts' = FactsOf(KnownEntries(msg))
          /\ \A j \in Joints :
               IF EntriesFor(msg, j) = {}
                 THEN JointUntouched(j)
                 ELSE JointStored(msg, j)]_vars

\* C18: after a callback the sample stored for a joint is that of the last
\* entry of the message for it, a joint the message has no entry for keeps
\* its sample, and no other step changes JointTelemetryMap.
C18_LastWriteWins ==
  [][IF Spins
       THEN \A j \in Joints :
              IF EntriesFor(Head(jointQueue), j) = {}
                THEN /\ (j \in DOMAIN JointTelemetryMap')
                          = (j \in DOMAIN JointTelemetryMap)
                     /\ j \in DOMAIN JointTelemetryMap
                          => JointTelemetryMap'[j] = JointTelemetryMap[j]
                ELSE JointStored(Head(jointQueue), j)
       ELSE JointTelemetryMap' = JointTelemetryMap]_vars

\* The tier of the joint by the two sets, the hard one first.
Tier(joint) ==
  IF hardTorqueLimitReached(JointPropMap[joint].plexilName) THEN "Hard"
  ELSE IF softTorqueLimitReached(JointPropMap[joint].plexilName) THEN "Soft"
  ELSE "Nominal"

\* The tier of an effort by the limits of the joint.
Classification(joint, effort) ==
  IF abs(effort) >= JointPropMap[joint].hardTorqueLimit THEN "Hard"
  ELSE IF abs(effort) >= JointPropMap[joint].softTorqueLimit THEN "Soft"
  ELSE "Nominal"

\* C20: once the callbacks for a joint have returned, the tier of the joint
\* is the classification of the sample stored for it: effort and membership
\* come from the same entry.
C20_TierOfStoredSample ==
  \A j \in DOMAIN JointTelemetryMap :
    Tier(j) = Classification(j, JointTelemetryMap[j].effort)

\* C13: a request for a name that was never registered fails where it is
\* detected: no exception leaves markOperationRunning, the table is as it
\* was and no fact is published.
C13_UnknownHandled ==
  /\ [](ctl.pc # "thrown")
  /\ [][(ctl.pc = "idle" /\ ctl'.pc # "idle" /\ AtThrows(ctl'.name))
          => /\ ctl'.pc = "returned" /\ ~ ctl'.result
             /\ m_runningOperations' = m_runningOperations
             /\ facts' = facts]_vars

\* An invocation of the operation has begun and has not set it idle yet.
BegunNotFinished(name) ==
  \E u \in DOMAIN units : units[u].name = name /\ InWindow(u)

\* C14: markOperationRunning (N, id) called while an invocation of N has
\* begun and not ended returns false, leaves every entry of the table as it
\* was, publishes no fact and has no unit launched.
C14_RejectedNoSideEffects ==
  /\ [][(ctl.pc = "idle" /\ ctl'.pc # "idle" /\ BegunNotFinished(ctl'.name))
          => /\ ctl'.pc = "returned" /\ ~ ctl'.result
             /\ m_runningOperations' = m_runningOperations
             /\ facts' = facts]_vars
  /\ [][(ctl.pc = "returned" /\ ~ ctl.result /\ ctl' # ctl)
          => /\ units' = units
             /\ m_runningOperations' = m_runningOperations
             /\ facts' = facts]_vars

\* C15: markOperationFinished warns exactly when it finds the operation
\* idle, and the operation is idle once line 44 has run.
C15_IdleEndWarns ==
  /\ [][\A u \in DOMAIN units :
          (units[u].pc = "finCheck" /\ units'[u].pc = "finWrite")
            => units'[u].warned = ~ operationRunning(units[u].name)]_vars
  /\ [][\A u \in DOMAIN units :
          (units[u].pc = "finWrite" /\ units'[u].pc = "finPublishRunning")
            => ~ operationRunning(units[u].name)']_vars

\* C16: a markOperationFinished that found its operation idle does not call
\* the callback.
C16_NoNotifyWhenIdle ==
  [][\A u \in DOMAIN units : Notifies(u) => ~ units[u].foundIdle]_vars

\* C17: registerLanderOperation for a name that is registered leaves its
\* entry as it is: a running operation is not reset and keeps its id.  (The
\* steps of the control thread outside markOperationRunning are those that
\* leave ctl and units alone.)
C17_RegisterKeepsEntry ==
  [][(ctl.pc = "idle" /\ ctl' = ctl /\ units' = units)
       => \A n \in DOMAIN m_runningOperations :
            m_runningOperations'[n] = m_runningOperations[n]]_vars

\* The next request of the control thread, whatever service it is for.
ControlStep == startPlanningDemo \/ moveGuarded \/ publishTrajectoryDemo

\* C19: while a thread is in its external call, the request method that
\* spawned it is back with its caller, and the control thread can make its
\* next request (as long as the model has a thread left to spawn).
C19_ControlNeverBlocks ==
  \A t \in DOMAIN svcThreads :
    svcThreads[t].pc = "call"
      => /\ lastRequest.returned
         /\ Len(svcThreads) < MaxThreads => ENABLED ControlStep

\* C19, its case: the first thread is still in its external call and the
\* control thread has made a request for another service since, which
\* spawned the second thread and returned.
C19_Witness ==
  /\ Len(svcThreads) = 2
  /\ svcThreads[1].pc = "call"
  /\ svcThreads[2].name # svcThreads[1].name
  /\ lastRequest.name = svcThreads[2].name
  /\ lastRequest.spawned /\ lastRequest.returned

\* The entries the callback went through: three facts for each it stored,
\* one logged name for each it dropped.
ProcessedCount == Len(jointFacts) \div 3 + Len(jointErrors)

\* C21: a callback goes through exactly the entries of its message, each
\* once and in order, whatever the length of the message: it reads no index
\* at or beyond the length (so it cannot die of such a read) and leaves no
\* entry out.
C21_BatchCovered ==
  [][Spins
       => /\ ~ crashed'
          /\ ProcessedCount' = Len(Head(jointQueue))
          /\ Len(jointErrors') = Len(UnknownNames(Head(jointQueue)))
          /\ jointFacts' = FactsOf(KnownEntries(Head(jointQueue)))]_vars

\* The names the queries are called with: the services and one more.
QueryNames == Services \cup {"NoSuchOp"}

\* C22: for every service name exactly one of running and finished is true,
\* and for a name that is no service both are false.
C22_FinishedIsNotRunning ==
  \A name \in QueryNames :
    IF is_service(name)
      THEN OwInterface_finished(name) = ~ OwInterface_running(name)
      ELSE ~ OwInterface_running(name) /\ ~ OwInterface_finished(name)

\* C22, its case: one service running and not finished, another finished
\* and not running, and the name that is no service neither.
C22_Witness ==
  /\ OwInterface_running(ArmPlanningService)
  /\ ~ OwInterface_finished(ArmPlanningService)
  /\ OwInterface_finished(MoveGuardedService)
  /\ ~ OwInterface_running(MoveGuardedService)
  /\ ~ is_service("NoSuchOp")
  /\ ~ OwInterface_running("NoSuchOp") /\ ~ OwInterface_finished("NoSuchOp")
  /\ \E t \in DOMAIN svcThreads :
       svcThreads[t].name = ArmPlanningService /\ svcThreads[t].pc = "call"

=============================================================================
